---- MODULE Spec2Model ----
(***************************************************************************)
(* Model of the DirectVolumeMigration reconcile step                      *)
(* (pkg/controller/directvolumemigration/migrate.go): the three resolvers *)
(* (plan resources, sparse-file advisory, endpoint type), the phase       *)
(* engine invocation and the projection of the engine's result onto the   *)
(* status of the DirectVolumeMigration object; and of the trace           *)
(* correlator of the DirectImageMigration reconciler                      *)
(* (pkg/controller/directimagemigration/trace.go).                        *)
(*                                                                         *)
(* Spec          the reconciles of one DirectVolumeMigration               *)
(* SpecLive      the same, with resolvers and steps that succeed and       *)
(*               finitely many conflicts, under weak fairness              *)
(* SpecResolvers one call of one resolver on an input drawn by Init        *)
(* SpecTracer    concurrent calls of initTracer on one reconciler          *)
(***************************************************************************)
EXTENDS Integers, Sequences, FiniteSets, TLC

VARIABLES
    direct,      \* the DirectVolumeMigration being reconciled
    now,         \* the wall clock
    ret,         \* what the last call of migrate returned
    conflicts,   \* SpecLive: the conflicts the steps may still return
    call,        \* SpecResolvers: the resolver called, its input and result
    settings,    \* SpecTracer: settings.Settings.JaegerOpts
    spans,       \* SpecTracer: the migration UIDs with a registered root span
    tracer,      \* SpecTracer: r.tracer (0 is nil)
    inits,       \* SpecTracer: the number of calls of InitJaeger
    goroutines   \* SpecTracer: the calls of initTracer in progress

engineVars == <<direct, now, ret>>

tracerVars == <<settings, spans, tracer, inits, goroutines>>

vars == <<direct, now, ret, conflicts, call, settings, spans, tracer, inits,
          goroutines>>

(***************************************************************************)
(* Bounds                                                                  *)
(***************************************************************************)
\* largest value of the wall clock read by time.Now()
MaxTime == 2

(***************************************************************************)
(* Names used by migrate.go and declared elsewhere in the package          *)
(***************************************************************************)
Completed == "Completed"
MigrationFailed == "MigrationFailed"
Running == "Running"
Succeeded == "Succeeded"
Failed == "Failed"
True == "True"
Critical == "Critical"
Warn == "Warn"
Advisory == "Advisory"
SucceededMessage == "The migration has succeeded"
RunningMessage == "Step: %d/%d"
\* requeue directives, in milliseconds
NoReQ == 0
FastReQ == 100
PollReQ == 3000
Route == "Route"
ClusterIP == "ClusterIP"
NodePort == "NodePort"

(***************************************************************************)
(* Errors.  An error value has a kind (the API status reason), a flag      *)
(* telling whether FatalPlanError is in its chain, its text, and a flag    *)
(* telling whether it is wrapped in a liberr.Error.                        *)
(***************************************************************************)
Nil == [kind |-> "nil", fatal |-> FALSE, msg |-> "", wrapped |-> FALSE]

NewError(kind, fatal, msg) ==
    [kind |-> kind, fatal |-> fatal, msg |-> msg, wrapped |-> FALSE]

\* liberr.Wrap: nil stays nil, an error is wrapped once
Wrap(err) == IF err = Nil THEN Nil ELSE [err EXCEPT !.wrapped = TRUE]

\* errorutil.Unwrap: the innermost error
Unwrap(err) == IF err = Nil THEN Nil ELSE [err EXCEPT !.wrapped = FALSE]

\* k8serrors.IsConflict: a type test on the error itself, not on its chain
IsConflict(err) == err # Nil /\ ~err.wrapped /\ err.kind = "Conflict"

\* errors.Is(err, FatalPlanError): identity anywhere in the chain
IsFatalPlanError(err) == err # Nil /\ err.fatal

\* err.Error()
ErrorText(err) == err.msg

(***************************************************************************)
(* Conditions (migapi.Conditions): a list of conditions keyed by Type      *)
(***************************************************************************)
NoText == [text |-> "", n |-> 0, total |-> 0]

Text(s) == [text |-> s, n |-> 0, total |-> 0]

\* fmt.Sprintf(RunningMessage, n, total)
Sprintf(format, n, total) == [text |-> format, n |-> n, total |-> total]

Condition(type, reason, category, message, durable) ==
    [Type |-> type, Status |-> True, Reason |-> reason,
     Category |-> category, Message |-> message, Durable |-> durable]

HasCondition(conds, type) == \E i \in 1..Len(conds) : conds[i].Type = type

\* FindCondition: the first condition of the type, if any (nil otherwise)
FindCondition(conds, type) ==
    IF HasCondition(conds, type)
    THEN conds[CHOOSE i \in 1..Len(conds) :
                  /\ conds[i].Type = type
                  /\ \A j \in 1..(i - 1) : conds[j].Type # type]
    ELSE Condition("", "", "", NoText, FALSE)

\* SetCondition: replace the condition of the same Type, or append
SetCondition(conds, c) ==
    IF HasCondition(conds, c.Type)
    THEN [i \in 1..Len(conds) |->
             IF conds[i].Type = c.Type THEN c ELSE conds[i]]
    ELSE Append(conds, c)

\* DeleteCondition: remove every condition of the Type
DeleteCondition(conds, type) ==
    LET keep(c) == c.Type # type IN SelectSeq(conds, keep)

CountCondition(conds, type) ==
    Cardinality({i \in 1..Len(conds) : conds[i].Type = type})

(***************************************************************************)
(* Plan Resource Resolver                                                  *)
(***************************************************************************)
\* &migapi.PlanResources{}: no plan, no referenced resources
EmptyPlanResources == [MigPlan |-> "nil", refs |-> {}]

\* the resources plan.GetRefResources returns for a ready plan
RefResources == [MigPlan |-> "plan", refs |-> {"srcCluster", "destCluster"}]

\* the error a failed read of the resource store returns
LookupError(what) == NewError("Other", FALSE, what)

\* direct.GetMigrationForDVM(r): env.migration is "err", "nil" or "found"
GetMigrationForDVM(env) ==
    IF env.migration = "err" THEN LookupError("get migration") ELSE Nil

\* migration.GetPlan(r): env.plan is "err" or "found"
GetPlan(env) == IF env.plan = "err" THEN LookupError("get plan") ELSE Nil

\* plan.GetRefResources(r): env.refResources is "err" or "ok"
GetRefResources(env) ==
    IF env.refResources = "err" THEN LookupError("get resources") ELSE Nil

\* what getDVMPlanResources returns when the parent Migration is absent
MigrationAbsent(err) == [res |-> EmptyPlanResources, err |-> Wrap(err), lookups |-> 1]

\* what getDVMPlanResources returns when the parent plan is not ready
PlanNotReady(err) == [res |-> EmptyPlanResources, err |-> Wrap(err), lookups |-> 2]

\* NoOwnerResources, reporting the missing owner as an error
NoOwnerResourcesNotFound ==
    [res |-> EmptyPlanResources,
     err |-> Wrap(NewError("NotFound", FALSE, "no owner")), lookups |-> 0]

\* what getDVMPlanResources returns for a task with no owner reference
NoOwnerResources == [res |-> EmptyPlanResources, err |-> Nil, lookups |-> 0]

\* getDVMPlanResources: res and err are the returned pair, lookups counts
\* the reads of the resource store it made
getDVMPlanResources(d, env) ==
    IF Len(d.OwnerReferences) > 0
    THEN LET merr == GetMigrationForDVM(env) IN
         IF merr # Nil
         THEN [res |-> EmptyPlanResources, err |-> Wrap(merr), lookups |-> 1]
         ELSE IF env.migration = "nil"
         THEN MigrationAbsent(merr)
         ELSE LET perr == GetPlan(env) IN
              IF perr # Nil
              THEN [res |-> EmptyPlanResources, err |-> Wrap(perr), lookups |-> 2]
              ELSE IF ~env.planReady
              THEN PlanNotReady(perr)
              ELSE LET rerr == GetRefResources(env) IN
                   IF rerr # Nil
                   THEN [res |-> EmptyPlanResources, err |-> Wrap(rerr), lookups |-> 3]
                   ELSE [res |-> RefResources, err |-> Nil, lookups |-> 3]
    ELSE NoOwnerResources

(***************************************************************************)
(* Sparse-File Advisory                                                    *)
(***************************************************************************)
\* make(sparseFilePVCMap)
EmptyMap == [k \in {} |-> TRUE]

\* fmt.Sprintf("%s/%s", ns.Namespace, pv.Name)
SparseKey(ns, name) == ns \o "/" \o name

\* sparseFilesMap[key] = true
MapPut(m, key) == [k \in DOMAIN m \cup {key} |-> IF k = key THEN TRUE ELSE m[k]]

\* Analyzed, true of every record
AnalyzedAlways(a) == TRUE

\* extended-capacity analysis was requested for the record
Analyzed(a) == a.AnalyzeExtendedPVCapacity

\* Flagged, true of every volume
FlaggedAlways(pv) == TRUE

\* the analysis found sparse files in the volume
Flagged(pv) == pv.SparseFilesFound

RECURSIVE SparseVolumes(_, _, _)
\* the loop over ns.PersistentVolumes
SparseVolumes(m, ns, pvs) ==
    IF pvs = <<>> THEN m
    ELSE LET pv == Head(pvs) IN
         SparseVolumes(IF Flagged(pv)
                       THEN MapPut(m, SparseKey(ns, pv.Name)) ELSE m,
                       ns, Tail(pvs))

RECURSIVE SparseNamespaces(_, _)
\* the loop over migAnalytic.Status.Analytics.Namespaces
SparseNamespaces(m, nss) ==
    IF nss = <<>> THEN m
    ELSE SparseNamespaces(
             SparseVolumes(m, Head(nss).Namespace, Head(nss).PersistentVolumes),
             Tail(nss))

RECURSIVE SparseItems(_, _)
\* the loop over analytics.Items
SparseItems(m, items) ==
    IF items = <<>> THEN m
    ELSE LET a == Head(items) IN
         SparseItems(IF Analyzed(a)
                     THEN SparseNamespaces(m, a.Namespaces) ELSE m,
                     Tail(items))

\* getSparseFilePVCMap: plan is "nil" or a plan name; env.list is "err" or
\* "ok" and env.analytics the listed records
getSparseFilePVCMap(plan, env) ==
    IF plan = "nil" THEN [map |-> EmptyMap, err |-> Nil]
    ELSE IF env.list = "err"
    THEN [map |-> EmptyMap, err |-> Wrap(LookupError("list analytics"))]
    ELSE [map |-> SparseItems(EmptyMap, env.analytics), err |-> Nil]

(***************************************************************************)
(* Endpoint Resolver                                                       *)
(***************************************************************************)
RSYNC_ENDPOINT_TYPE == "RSYNC_ENDPOINT_TYPE"

\* ValidEndpointTypes, without NodePort
ValidEndpointTypesNoNodePort == {Route, ClusterIP}

\* the endpoint types a cluster may configure
ValidEndpointTypes == {Route, ClusterIP, NodePort}

\* getEndpointType: env.destCluster, env.destClient and env.configMap are
\* "err" or "ok"; env.data is clusterConfig.Data
getEndpointType(env) ==
    IF env.destCluster = "err"
    THEN [type |-> "", err |-> Wrap(LookupError("get cluster"))]
    ELSE IF env.destClient = "err"
    THEN [type |-> "", err |-> Wrap(LookupError("get client"))]
    ELSE IF env.configMap = "err"
    THEN [type |-> "", err |-> Wrap(LookupError("get config map"))]
    ELSE IF RSYNC_ENDPOINT_TYPE \notin DOMAIN env.data
    THEN [type |-> Route, err |-> Nil]
    ELSE IF env.data[RSYNC_ENDPOINT_TYPE] \in ValidEndpointTypes
    THEN [type |-> env.data[RSYNC_ENDPOINT_TYPE], err |-> Nil]
    ELSE [type |-> Route, err |-> Nil]

(***************************************************************************)
(* Phase Execution Engine (Task): itineraries, Run and fail                *)
(***************************************************************************)
\* the itinerary of a task that runs standalone
StandaloneItinerary ==
    [Name |-> "Standalone", Steps |-> <<"Created", "Prepare", "Transfer">>]

\* the itinerary of a task nested under a parent migration
NestedItinerary == [Name |-> "Nested", Steps |-> <<"Created", "Transfer">>]

\* Itinerary{}: the zero value, before Run selects one
NoItinerary == [Name |-> "", Steps |-> <<>>]

\* the phases whose skipped predicate may hold
Skippable == {"Prepare"}

Terminal == {Completed, MigrationFailed}

\* the human description of a phase
getPhaseDescription(phase) == IF phase = "" THEN "" ELSE "About " \o phase

\* the itinerary is selected by the execution mode of the task
SelectItinerary(d) ==
    IF Len(d.OwnerReferences) > 0 THEN NestedItinerary ELSE StandaloneItinerary

\* the steps of the itinerary that are not skipped
ActiveSteps(itinerary, skipped) ==
    LET keep(p) == p \notin skipped IN SelectSeq(itinerary.Steps, keep)

\* the position of a phase in a list of steps, 0 when it is not in it
Position(steps, phase) ==
    IF \E i \in 1..Len(steps) : steps[i] = phase
    THEN CHOOSE i \in 1..Len(steps) : steps[i] = phase
    ELSE 0

\* next: the next phase of the itinerary that is not skipped, or Completed
NextPhase(itinerary, skipped, phase) ==
    LET cur == Position(itinerary.Steps, phase)
        later == {i \in (cur + 1)..Len(itinerary.Steps) :
                     itinerary.Steps[i] \notin skipped}
    IN IF cur = 0 \/ later = {} THEN Completed
       ELSE itinerary.Steps[CHOOSE i \in later : \A j \in later : i <= j]

\* progressReport: the step name, its position and the number of steps
progressReport(itinerary, skipped, phase) ==
    LET steps == ActiveSteps(itinerary, skipped) IN
    [step |-> phase, n |-> Position(steps, phase), total |-> Len(steps)]

\* the Task literal built by migrate
NewTask(d, planResources, sparseFileMap, endpointType) ==
    [Phase |-> d.Status.Phase,
     PhaseDescription |-> d.Status.PhaseDescription,
     Itinerary |-> NoItinerary,
     Skipped |-> {},
     Requeue |-> NoReQ,
     PlanResources |-> planResources,
     SparseFileMap |-> sparseFileMap,
     EndpointType |-> endpointType]

\* Task.Run: selects the itinerary, enters it at its first phase, and
\* executes the step of the current phase.  run.result is the outcome of
\* the step: "ok" (done), "wait" (not done yet) or "err" (run.err).
\* A terminal phase executes nothing.
Run(task, d, run) ==
    LET itinerary == SelectItinerary(d)
        phase == IF task.Phase = "" THEN itinerary.Steps[1] ELSE task.Phase
        t0 == [task EXCEPT !.Itinerary = itinerary, !.Skipped = run.skipped,
                           !.Phase = phase,
                           !.PhaseDescription = getPhaseDescription(phase),
                           !.Requeue = FastReQ]
    IN IF phase \in Terminal
       THEN [task |-> [t0 EXCEPT !.Requeue = NoReQ], owner |-> d, err |-> Nil]
       ELSE IF run.result = "err"
       THEN [task |-> t0, owner |-> d, err |-> run.err]
       ELSE IF run.result = "wait"
       THEN [task |-> [t0 EXCEPT !.Requeue = PollReQ], owner |-> d, err |-> Nil]
       ELSE LET next == NextPhase(itinerary, run.skipped, phase) IN
            [task |-> [t0 EXCEPT !.Phase = next,
                                 !.PhaseDescription = getPhaseDescription(next)],
             owner |-> d, err |-> Nil]

\* Task.fail: records the Failed condition on the owner and moves the task
\* to nextPhase
fail(task, d, nextPhase, severity, reason) ==
    [task |-> [task EXCEPT !.Phase = nextPhase],
     owner |-> [d EXCEPT !.Status.Conditions =
                   SetCondition(@, Condition(Failed, task.Phase, severity,
                                             Text(reason), TRUE))]]

(***************************************************************************)
(* migrate: one reconcile of a DirectVolumeMigration                       *)
(***************************************************************************)
\* what a reconcile keeps of its Task when it returns
TaskView(task) ==
    [built |-> TRUE, Phase |-> task.Phase,
     PhaseDescription |-> task.PhaseDescription,
     Itinerary |-> task.Itinerary.Name, Requeue |-> task.Requeue,
     PlanResources |-> task.PlanResources]

\* a reconcile that returned before it built its Task
NoTask ==
    [built |-> FALSE, Phase |-> "", PhaseDescription |-> "", Itinerary |-> "",
     Requeue |-> 0, PlanResources |-> EmptyPlanResources]

\* Started, stamping on every reconcile
StartedAlways(timestamp, t) == t

\* the "Started" block: StartTimestamp is stamped when it is nil (0)
Started(timestamp, t) == IF timestamp = 0 THEN t ELSE timestamp

\* ConflictDuringRun, testing the wrapped error itself
ConflictDuringRunNoUnwrap(err) == IsConflict(err)

\* ConflictDuringRun, with the fatal-plan test taking precedence
ConflictDuringRunUnlessFatal(err) ==
    IsConflict(Unwrap(err)) /\ ~IsFatalPlanError(err)

\* k8serrors.IsConflict(errorutil.Unwrap(err))
ConflictDuringRun(err) == IsConflict(Unwrap(err))

\* FailSeverity, never Critical
FailSeverityAlwaysWarn(err) == Warn

\* the severity task.fail is called with
FailSeverity(err) == IF IsFatalPlanError(err) THEN Critical ELSE Warn

\* Result, without the write of the phase
ResultWithoutPhase(d, task) ==
    [d EXCEPT !.Status.PhaseDescription = task.PhaseDescription,
              !.Status.Itinerary = task.Itinerary.Name]

\* the "Result" block
Result(d, task) ==
    [d EXCEPT !.Status.PhaseDescription = task.PhaseDescription,
              !.Status.Phase = task.Phase,
              !.Status.Itinerary = task.Itinerary.Name]

\* CompletedStatus, without the test for a Failed condition
CompletedStatusAlwaysSucceeded(d, task) ==
    [d EXCEPT !.Status.Conditions =
        SetCondition(DeleteCondition(@, Running),
            Condition(Succeeded, task.Phase, Advisory,
                      Text(SucceededMessage), TRUE))]

\* the "Completed" block
CompletedStatus(d, task) ==
    LET deleted == DeleteCondition(d.Status.Conditions, Running) IN
    [d EXCEPT !.Status.Conditions =
        IF ~HasCondition(deleted, Failed)
        THEN SetCondition(deleted,
                 Condition(Succeeded, task.Phase, Advisory,
                           Text(SucceededMessage), TRUE))
        ELSE deleted]

\* the "Running" block
RunningStatus(d, task) ==
    LET p == progressReport(task.Itinerary, task.Skipped, task.Phase) IN
    [d EXCEPT !.Status.Conditions =
        SetCondition(@, Condition(Running, p.step, Advisory,
                                  Sprintf(RunningMessage, p.n, p.total), FALSE))]

\* the directive returned with the conflict
RequeueOnConflict(task) == FastReQ

\* the directive returned at Completed
RequeueOnCompleted(task) == NoReQ

\* RequeueOnRunning, always the fast requeue
RequeueOnRunningFast(task) == FastReQ

\* the directive returned by the last return
RequeueOnRunning(task) == task.Requeue

\* a return of migrate: the object as the reconcile leaves it, the returned
\* pair, the return statement taken, and the resolver's and the step's results
Return(d, requeue, err, path, task, plan, runErr) ==
    [direct |-> d, requeue |-> requeue, err |-> err, path |-> path,
     task |-> task, plan |-> plan, runErr |-> runErr]

\* what migrate does after task.Run returned
AfterRun(run, plan) ==
    IF run.err # Nil /\ ConflictDuringRun(run.err)
    THEN Return(run.owner, RequeueOnConflict(run.task), Nil, "conflict",
                TaskView(run.task), plan, run.err)
    ELSE LET f == IF run.err # Nil
                  THEN fail(run.task, run.owner, MigrationFailed,
                            FailSeverity(run.err), ErrorText(run.err))
                  ELSE [task |-> run.task, owner |-> run.owner]
             d == Result(f.owner, f.task)
         IN IF f.task.Phase = Completed
            THEN Return(CompletedStatus(d, f.task), RequeueOnCompleted(f.task),
                        Nil, "completed", TaskView(f.task), plan, run.err)
            ELSE Return(RunningStatus(d, f.task), RequeueOnRunning(f.task),
                        Nil, "running", TaskView(f.task), plan, run.err)

\* migrate(ctx, direct): in.env is what the resource stores answer, in.run
\* the outcome of the step, t the wall clock
migrate(d, in, t) ==
    LET plan == getDVMPlanResources(d, in.env) IN
    IF plan.err # Nil
    THEN Return(d, 0, Wrap(plan.err), "planResources", NoTask, plan, Nil)
    ELSE LET sparse == getSparseFilePVCMap(plan.res.MigPlan, in.env) IN
    IF sparse.err # Nil
    THEN Return(d, 0, Wrap(sparse.err), "sparseFiles", NoTask, plan, Nil)
    ELSE LET endpoint == getEndpointType(in.env) IN
    IF endpoint.err # Nil
    THEN Return(d, 0, Wrap(endpoint.err), "endpointType", NoTask, plan, Nil)
    ELSE LET started == [d EXCEPT !.Status.StartTimestamp = Started(@, t)]
             task == NewTask(started, plan.res, sparse.map, endpoint.type)
         IN AfterRun(Run(task, started, in.run), plan)

(***************************************************************************)
(* The answers of the resource stores and the outcomes of a step           *)
(***************************************************************************)
\* an analytics record of one namespace with one volume
Analytic(extended, ns, name, sparse) ==
    [AnalyzeExtendedPVCapacity |-> extended,
     Namespaces |-> <<[Namespace |-> ns,
                       PersistentVolumes |->
                           <<[Name |-> name, SparseFilesFound |-> sparse]>>]>>]

\* the analytics listings a reconcile may read
AnalyticLists == {<<Analytic(TRUE, "ns1", "pvc-a", TRUE)>>}

\* clusterConfig.Data with the endpoint key set to v
ConfigData(v) == [k \in {RSYNC_ENDPOINT_TYPE} |-> v]

\* the contents of the destination cluster's config map
ConfigDatas == {ConfigData(NodePort)}

\* every resource store answers, the plan is ready, nothing is configured
DefaultEnv ==
    [migration |-> "found", plan |-> "found", planReady |-> TRUE,
     refResources |-> "ok", list |-> "ok", analytics |-> <<>>,
     destCluster |-> "ok", destClient |-> "ok", configMap |-> "ok",
     data |-> EmptyMap]

\* the answers up to the first failing read; what follows it is never read
\* and keeps its default
Envs ==
    LET planEnvs == {[DefaultEnv EXCEPT !.migration = "nil"],
                     [DefaultEnv EXCEPT !.planReady = FALSE],
                     DefaultEnv}
    IN planEnvs
       \cup {[DefaultEnv EXCEPT !.analytics = a, !.data = c] :
                a \in AnalyticLists, c \in ConfigDatas}
       \cup {[DefaultEnv EXCEPT !.migration = "err"],
             [DefaultEnv EXCEPT !.plan = "err"],
             [DefaultEnv EXCEPT !.refResources = "err"],
             [DefaultEnv EXCEPT !.list = "err"]}
       \cup {[e EXCEPT !.destCluster = "err"] : e \in planEnvs}
       \cup {[e EXCEPT !.destClient = "err"] : e \in planEnvs}
       \cup {[e EXCEPT !.configMap = "err"] : e \in planEnvs}

\* the errors a step may return: of either kind, fatal or not, wrapped or
\* not, and two that differ in their text only
StepErrors ==
    {[kind |-> k, fatal |-> f, msg |-> "e1", wrapped |-> w] :
        k \in {"Conflict", "Other"}, f \in BOOLEAN, w \in BOOLEAN}
    \cup {[kind |-> "Other", fatal |-> f, msg |-> "e2", wrapped |-> TRUE] :
             f \in BOOLEAN}

\* the outcomes of Task.Run's step
Runs ==
    {[result |-> r, err |-> Nil, skipped |-> s] :
        r \in {"ok", "wait"}, s \in SUBSET Skippable}
    \cup {[result |-> "err", err |-> e, skipped |-> s] :
             e \in StepErrors, s \in SUBSET Skippable}

\* a reconcile reaches task.Run under env
ReachesRun(d, env) ==
    /\ getDVMPlanResources(d, env).err = Nil
    /\ getSparseFilePVCMap(getDVMPlanResources(d, env).res.MigPlan, env).err = Nil
    /\ getEndpointType(env).err = Nil

DefaultRun == [result |-> "ok", err |-> Nil, skipped |-> {}]

\* the answers a reconcile of d reads: a task with no owner reference reads
\* neither the migration nor the plan
EnvsOf(d) ==
    {e \in Envs : Len(d.OwnerReferences) = 0 =>
                      /\ e.migration = "found" /\ e.plan = "found"
                      /\ e.planReady /\ e.refResources = "ok"
                      /\ e.list = "ok" /\ e.analytics = <<>>}

\* the outcomes of the step of d: only a phase of d's itinerary is skipped
RunsOf(d) ==
    {r \in Runs : \A p \in r.skipped :
                      \E i \in 1..Len(SelectItinerary(d).Steps) :
                          SelectItinerary(d).Steps[i] = p}

\* the inputs of one reconcile of d: the step has an outcome only when the
\* reconcile reaches it
Inputs(d) ==
    {[env |-> e, run |-> r] :
        e \in {x \in EnvsOf(d) : ReachesRun(d, x)}, r \in RunsOf(d)}
    \cup {[env |-> e, run |-> DefaultRun] :
             e \in {x \in EnvsOf(d) : ~ReachesRun(d, x)}}

(***************************************************************************)
(* State machine                                                           *)
(***************************************************************************)
\* the Status of a DirectVolumeMigration that was never reconciled
NewStatus ==
    [Phase |-> "", PhaseDescription |-> "", Itinerary |-> "",
     Conditions |-> <<>>, StartTimestamp |-> 0]

\* no reconcile has returned since the object was last written from outside
NoReturn ==
    [called |-> FALSE, requeue |-> 0, err |-> Nil, path |-> "", task |-> NoTask,
     plan |-> [res |-> EmptyPlanResources, err |-> Nil, lookups |-> 0],
     runErr |-> Nil, lookup |-> [migration |-> "found", planReady |-> TRUE]]

\* the state of the engine before the first reconcile
InitEngine ==
    /\ direct \in {[OwnerReferences |-> o, Status |-> NewStatus] :
                      o \in {<<>>, <<"migration">>}}
    /\ now = 1
    /\ ret = NoReturn

\* no resolver is called on its own
NoCall == [fn |-> "", in |-> <<>>, done |-> FALSE, out |-> <<>>]

\* the goroutines that may run initTracer
Goroutines == {"g1", "g2"}

\* a goroutine that is not in initTracer
Idle == [pc |-> "idle", refs |-> <<>>, span |-> [tracer |-> 0, parent |-> ""]]

\* tracing is off and no reconcile of a DirectImageMigration runs
InitNoTracer ==
    /\ settings = [Enabled |-> FALSE]
    /\ spans = {}
    /\ tracer = 0
    /\ inits = 0
    /\ goroutines = [g \in Goroutines |-> Idle]

Init ==
    /\ InitEngine
    /\ conflicts = 0
    /\ call = NoCall
    /\ InitNoTracer

\* migrate is called on the object with input in, and returns
Returns(in) ==
    \E r \in {migrate(direct, in, now)} :
    /\ direct' = r.direct
    /\ ret' = [called |-> TRUE, requeue |-> r.requeue, err |-> r.err, path |-> r.path,
               task |-> r.task, plan |-> r.plan, runErr |-> r.runErr,
               lookup |-> [migration |-> in.env.migration,
                           planReady |-> in.env.planReady]]

\* one call of migrate on the object
Reconcile ==
    \E in \in Inputs(direct) :
        /\ Returns(in)
        /\ UNCHANGED <<now, conflicts, call, tracerVars>>

\* time passes between reconciles
Tick ==
    /\ now < MaxTime
    /\ now' = now + 1
    /\ UNCHANGED <<direct, ret, conflicts, call, tracerVars>>

\* an external actor restarts a failed task at the itinerary's entry point
ExternalRestart ==
    /\ direct.Status.Phase = MigrationFailed
    /\ direct' = [direct EXCEPT !.Status.Phase = SelectItinerary(direct).Steps[1]]
    /\ ret' = NoReturn
    /\ UNCHANGED <<now, conflicts, call, tracerVars>>

Next == Reconcile \/ Tick \/ ExternalRestart

Spec == Init /\ [][Next]_vars

(***************************************************************************)
(* The reconciles of a task whose resolvers and steps succeed, but for     *)
(* finitely many conflicts.  The runtime requeues the object after every   *)
(* reconcile that does not end at Completed (FastReQ or task.Requeue), so  *)
(* the reconcile is weakly fair.                                           *)
(***************************************************************************)
\* the number of conflicts the steps of one task may return
MaxConflicts == 2

\* the inputs of a reconcile of d whose resource stores all answer and
\* whose step is done, or returns a conflict while some are left
LiveInputs(d, left) ==
    {[env |-> DefaultEnv, run |-> r] :
        r \in {x \in RunsOf(d) :
                  \/ x.result = "ok"
                  \/ x.result = "err" /\ x.err.kind = "Conflict" /\ left > 0}}

InitLive ==
    /\ InitEngine
    /\ conflicts = MaxConflicts
    /\ call = NoCall
    /\ InitNoTracer

\* one call of migrate on the object
LiveReconcile ==
    \E in \in LiveInputs(direct, conflicts) :
        /\ Returns(in)
        /\ conflicts' = IF in.run.result = "err" THEN conflicts - 1 ELSE conflicts
        /\ UNCHANGED <<now, call, tracerVars>>

NextLive == LiveReconcile \/ Tick

SpecLive == InitLive /\ [][NextLive]_vars /\ WF_vars(LiveReconcile)

(***************************************************************************)
(* One call of one resolver.  Init draws the resolver and its input, the   *)
(* action of the resolver applies it.                                      *)
(***************************************************************************)
\* the longest analytics listing
MaxItems == 2

\* the volumes an analytics record may report
Volumes ==
    {[Name |-> n, SparseFilesFound |-> f] : n \in {"pvc-a", "pvc-b"}, f \in BOOLEAN}

\* the volume lists of a namespace: none, one, or pvc-a followed by pvc-b
VolumeLists ==
    {<<>>} \cup {<<v>> : v \in Volumes}
    \cup {<<v, w>> : v \in {x \in Volumes : x.Name = "pvc-a"},
                     w \in {x \in Volumes : x.Name = "pvc-b"}}

\* the analysis of one namespace
NamespaceAnalytics ==
    {[Namespace |-> ns, PersistentVolumes |-> vl] :
        ns \in {"ns1", "ns2"}, vl \in VolumeLists}

\* the namespaces of a record: none, one, or ns1 followed by ns2 with one
\* pvc-a each
NamespaceLists ==
    {<<>>} \cup {<<e>> : e \in NamespaceAnalytics}
    \cup {<<e, f>> :
            e \in {x \in NamespaceAnalytics :
                      x.Namespace = "ns1" /\ Len(x.PersistentVolumes) = 1
                      /\ x.PersistentVolumes[1].Name = "pvc-a"},
            f \in {x \in NamespaceAnalytics :
                      x.Namespace = "ns2" /\ Len(x.PersistentVolumes) = 1
                      /\ x.PersistentVolumes[1].Name = "pvc-a"}}

\* the analytics records (migapi.MigAnalytic)
MigAnalytics ==
    {[AnalyzeExtendedPVCapacity |-> x, Namespaces |-> nl] :
        x \in BOOLEAN, nl \in NamespaceLists}

\* the listings of at most n records
RECURSIVE ListsUpTo(_)
ListsUpTo(n) ==
    IF n = 0 THEN {<<>>}
    ELSE ListsUpTo(n - 1)
         \cup {Append(l, a) : l \in {x \in ListsUpTo(n - 1) : Len(x) = n - 1},
                              a \in MigAnalytics}

\* the calls of getDVMPlanResources: any task, any answers
PlanResourcesCalls ==
    {[fn |-> "getDVMPlanResources",
      in |-> [d |-> [OwnerReferences |-> o, Status |-> NewStatus],
              env |-> [DefaultEnv EXCEPT !.migration = m, !.plan = p,
                                         !.planReady = r, !.refResources = f]],
      done |-> FALSE, out |-> <<>>] :
        o \in {<<>>, <<"migration">>}, m \in {"err", "nil", "found"},
        p \in {"err", "found"}, r \in BOOLEAN, f \in {"err", "ok"}}

\* the calls of getSparseFilePVCMap: any listing for a plan, and a nil
\* plan or a failing List with a listing that is never read
SparseFilesCalls ==
    {[fn |-> "getSparseFilePVCMap",
      in |-> [plan |-> "plan", env |-> [DefaultEnv EXCEPT !.analytics = l]],
      done |-> FALSE, out |-> <<>>] : l \in ListsUpTo(MaxItems)}
    \cup {[fn |-> "getSparseFilePVCMap",
           in |-> [plan |-> pl, env |-> [DefaultEnv EXCEPT !.analytics = l,
                                                           !.list = e]],
           done |-> FALSE, out |-> <<>>] :
             pl \in {"nil", "plan"}, e \in {"err", "ok"},
             l \in {x \in ListsUpTo(MaxItems) : Len(x) = 1}}

\* the contents of the destination cluster's config map: without the key,
\* with each valid value, with invalid ones
EndpointDatas ==
    {EmptyMap, [k \in {"OTHER_KEY"} |-> NodePort]}
    \cup {ConfigData(v) : v \in {Route, ClusterIP, NodePort, "bogus", "", "nodeport"}}

\* the calls of getEndpointType
EndpointTypeCalls ==
    {[fn |-> "getEndpointType",
      in |-> [env |-> [DefaultEnv EXCEPT !.destCluster = a, !.destClient = b,
                                         !.configMap = c, !.data = x]],
      done |-> FALSE, out |-> <<>>] :
        a \in {"err", "ok"}, b \in {"err", "ok"}, c \in {"err", "ok"},
        x \in EndpointDatas}

\* no reconcile runs
EngineParked ==
    /\ direct = [OwnerReferences |-> <<>>, Status |-> NewStatus]
    /\ now = 1
    /\ ret = NoReturn

InitResolvers ==
    /\ EngineParked
    /\ conflicts = 0
    /\ call \in PlanResourcesCalls \cup SparseFilesCalls \cup EndpointTypeCalls
    /\ InitNoTracer

\* the resolver of the call returns out
Resolved(out) ==
    /\ ~call.done
    /\ call' = [call EXCEPT !.done = TRUE, !.out = out]
    /\ UNCHANGED <<engineVars, conflicts, tracerVars>>

CallPlanResources ==
    /\ call.fn = "getDVMPlanResources"
    /\ Resolved(getDVMPlanResources(call.in.d, call.in.env))

CallSparseFiles ==
    /\ call.fn = "getSparseFilePVCMap"
    /\ Resolved(getSparseFilePVCMap(call.in.plan, call.in.env))

CallEndpointType ==
    /\ call.fn = "getEndpointType"
    /\ Resolved(getEndpointType(call.in.env))

NextResolvers == CallPlanResources \/ CallSparseFiles \/ CallEndpointType

SpecResolvers == InitResolvers /\ [][NextResolvers]_vars

(***************************************************************************)
(* Trace Correlator (trace.go).  The reconciles of different objects run   *)
(* on separate goroutines and share the reconciler's tracer field, which   *)
(* initTracer reads and writes without synchronisation: a goroutine takes  *)
(* one step per access of the shared field.                                *)
(***************************************************************************)
\* no span (nil)
NoSpan == [tracer |-> 0, parent |-> ""]

\* an owner reference
OwnerRef(kind, uid) == [Kind |-> kind, UID |-> uid]

\* the owner references of the reconciled objects
OwnerRefLists ==
    {<<>>,
     <<OwnerRef("MigMigration", "u1")>>,
     <<OwnerRef("MigMigration", "u2")>>,
     <<OwnerRef("MigPlan", "u1")>>,
     <<OwnerRef("MigMigration", "u1"), OwnerRef("MigMigration", "u2")>>,
     <<OwnerRef("MigMigration", "u2"), OwnerRef("MigMigration", "u1")>>,
     <<OwnerRef("MigPlan", "u1"), OwnerRef("MigMigration", "u1")>>,
     <<OwnerRef("MigMigration", "u1"), OwnerRef("MigPlan", "u2")>>}

\* migtrace.GetSpanForMigrationUID: the root span registered for the UID,
\* named by the UID, or nil ("")
GetSpanForMigrationUID(uid) == IF uid \in spans THEN uid ELSE ""

RECURSIVE OwnerLoop(_, _)
\* the loop over ownerRefs: every MigMigration reference assigns
\* migrationSpan
OwnerLoop(migrationSpan, ownerRefs) ==
    IF ownerRefs = <<>> THEN migrationSpan
    ELSE LET ownerRef == Head(ownerRefs) IN
         OwnerLoop(IF ownerRef.Kind # "MigMigration"
                   THEN migrationSpan
                   ELSE GetSpanForMigrationUID(ownerRef.UID),
                   Tail(ownerRefs))

\* r.tracer.StartSpan(..., ChildOf(migrationSpan.Context())), or nil when
\* migrationSpan is nil
StartSpan(migrationSpan) ==
    IF migrationSpan = "" THEN NoSpan
    ELSE [tracer |-> tracer, parent |-> migrationSpan]

\* goroutine g moves to pc
Goto(g, pc) == goroutines' = [goroutines EXCEPT ![g].pc = pc]

\* a reconcile on goroutine g calls initTracer and tests the setting
TracerCall(g) ==
    /\ goroutines[g].pc = "idle"
    /\ \E refs \in OwnerRefLists :
           goroutines' = [goroutines EXCEPT
               ![g] = [pc |-> IF ~settings.Enabled THEN "returned" ELSE "check",
                       refs |-> refs, span |-> NoSpan]]
    /\ UNCHANGED <<engineVars, conflicts, call, settings, spans, tracer, inits>>

\* if r.tracer == nil
TracerCheck(g) ==
    /\ goroutines[g].pc = "check"
    /\ Goto(g, IF tracer = 0 THEN "init" ELSE "owners")
    /\ UNCHANGED <<engineVars, conflicts, call, settings, spans, tracer, inits>>

\* r.tracer, _ = migtrace.InitJaeger(...): a new handle, named by the
\* number of the invocation
TracerInit(g) ==
    /\ goroutines[g].pc = "init"
    /\ inits' = inits + 1
    /\ tracer' = inits + 1
    /\ Goto(g, "owners")
    /\ UNCHANGED <<engineVars, conflicts, call, settings, spans>>

\* the owner loop, the nil test and StartSpan
TracerSpan(g) ==
    /\ goroutines[g].pc = "owners"
    /\ goroutines' = [goroutines EXCEPT
           ![g].pc = "returned",
           ![g].span = StartSpan(OwnerLoop("", goroutines[g].refs))]
    /\ UNCHANGED <<engineVars, conflicts, call, settings, spans, tracer, inits>>

\* the reconcile ends, the goroutine takes the next object
TracerReturn(g) ==
    /\ goroutines[g].pc = "returned"
    /\ goroutines' = [goroutines EXCEPT ![g] = Idle]
    /\ UNCHANGED <<engineVars, conflicts, call, settings, spans, tracer, inits>>

InitTracer ==
    /\ EngineParked
    /\ conflicts = 0
    /\ call = NoCall
    /\ settings \in {[Enabled |-> e] : e \in BOOLEAN}
    /\ spans \in SUBSET {"u1", "u2"}
    /\ tracer = 0
    /\ inits = 0
    /\ goroutines = [g \in Goroutines |-> Idle]

NextTracer ==
    \E g \in Goroutines :
        \/ TracerCall(g)
        \/ TracerCheck(g)
        \/ TracerInit(g)
        \/ TracerSpan(g)
        \/ TracerReturn(g)

SpecTracer == InitTracer /\ [][NextTracer]_vars

(***************************************************************************)
(* Properties                                                              *)
(***************************************************************************)
Conds == direct.Status.Conditions

\* the conditions of a Type, in order
OfType(conds, type) == LET is(c) == c.Type = type IN SelectSeq(conds, is)

\* the last reconcile's step returned a conflict error, wrapped or not
StepConflict(r) == r.called /\ r.runErr.kind = "Conflict"

\* the last reconcile's step returned an error that is not a conflict
StepFailure(r) == r.called /\ r.runErr # Nil /\ r.runErr.kind # "Conflict"

\* the last reconcile returned no error and left the phase at Completed
EndedCompleted(r, d) ==
    r.called /\ r.err = Nil /\ d.Status.Phase = Completed

\* C1: a reconcile whose step returns a conflict error returns FastReQ and
\* no error, leaves Status.Phase as it was and adds no Failed condition.
C1_ConflictRequeuesFast ==
    [][StepConflict(ret') =>
          /\ ret'.requeue = FastReQ
          /\ ret'.err = Nil
          /\ direct'.Status.Phase = direct.Status.Phase
          /\ OfType(direct'.Status.Conditions, Failed) = OfType(Conds, Failed)]_vars

\* a wrapped conflict error was returned by the step of a started task
C1_Witness ==
    /\ StepConflict(ret) /\ ret.runErr.wrapped
    /\ ret.path = "conflict"
    /\ direct.Status.Phase = "Created"

\* C2: a reconcile that ends at Completed returns NoReQ; with no Failed
\* condition the task then holds exactly one Succeeded condition, True and
\* durable; with a Failed condition no Succeeded condition is added.
C2_CompletedProjection ==
    /\ [](EndedCompleted(ret, direct) =>
            /\ ret.requeue = NoReQ
            /\ ~HasCondition(Conds, Failed) =>
                  /\ CountCondition(Conds, Succeeded) = 1
                  /\ FindCondition(Conds, Succeeded).Status = True
                  /\ FindCondition(Conds, Succeeded).Durable)
    /\ [][(EndedCompleted(ret', direct')
             /\ HasCondition(direct'.Status.Conditions, Failed)) =>
            CountCondition(direct'.Status.Conditions, Succeeded)
                = CountCondition(Conds, Succeeded)]_vars

\* a reconcile was repeated at Completed on a task that has succeeded
C2_Witness ==
    /\ EndedCompleted(ret, direct)
    /\ ret.task.Requeue = NoReQ
    /\ HasCondition(Conds, Succeeded)

\* C3: a reconcile whose step returns a non-conflict error leaves the task
\* at MigrationFailed with a Failed condition that carries the error text,
\* Critical for a fatal-plan error and Warn for any other.
C3_StepFailureRecorded ==
    StepFailure(ret) =>
        /\ direct.Status.Phase = MigrationFailed
        /\ CountCondition(Conds, Failed) = 1
        /\ FindCondition(Conds, Failed).Message = Text(ret.runErr.msg)
        /\ FindCondition(Conds, Failed).Category
               = IF ret.runErr.fatal THEN Critical ELSE Warn

\* a wrapped fatal-plan error was returned by the step
C3_Witness ==
    /\ StepFailure(ret) /\ ret.runErr.fatal /\ ret.runErr.wrapped
    /\ FindCondition(Conds, Failed).Category = Critical

\* C4: every failure of a reconcile other than a conflict, a resolver's
\* included, is recorded as a durable Failed condition on the task.
C4_EveryFailureRecorded ==
    (ret.called /\ ret.runErr.kind # "Conflict"
        /\ (ret.err # Nil \/ ret.runErr # Nil)) =>
        /\ HasCondition(Conds, Failed)
        /\ FindCondition(Conds, Failed).Durable

\* C5: when the task has an owner and its plan is fetched but not ready
\* (and the endpoint resolver answers), the plan-resource resolver returns
\* an error and the step is not executed.
C5_PlanNotReadyFails ==
    (ret.called /\ Len(direct.OwnerReferences) > 0
        /\ ret.lookup.migration = "found" /\ ~ret.lookup.planReady
        /\ ret.path # "endpointType") =>
        /\ ret.plan.err # Nil
        /\ ~ret.task.built

\* C6: when the task has an owner and its parent Migration is absent, the
\* plan-resource resolver returns a NotFound error.
C6_MigrationAbsentFails ==
    (ret.called /\ Len(direct.OwnerReferences) > 0
        /\ ret.lookup.migration = "nil") =>
        /\ ret.plan.err # Nil
        /\ ret.plan.err.kind = "NotFound"

\* C7: the Running block runs only when the resulting phase is not
\* terminal; a reconcile ending at Completed leaves no Running condition;
\* a reconcile ending at MigrationFailed leaves a Failed condition.
C7_RunningOnlyNonTerminal ==
    ret.called =>
        /\ ret.path = "running" => direct.Status.Phase \notin Terminal
        /\ EndedCompleted(ret, direct) => ~HasCondition(Conds, Running)
        /\ StepFailure(ret) =>
              /\ direct.Status.Phase = MigrationFailed
              /\ HasCondition(Conds, Failed)

\* C8: whenever a reconcile that built its Task returns, Status.Phase,
\* Status.PhaseDescription and Status.Itinerary are those of the Task.
C8_StatusPersisted ==
    (ret.called /\ ret.task.built) =>
        /\ direct.Status.Phase = ret.task.Phase
        /\ direct.Status.PhaseDescription = ret.task.PhaseDescription
        /\ direct.Status.Itinerary = ret.task.Itinerary

\* C9: a reconcile that returns a directive returns NoReQ at Completed,
\* FastReQ after a conflict, and task.Requeue in every other case.
C9_RequeueDirective ==
    (ret.called /\ ret.err = Nil) =>
        ret.requeue = IF direct.Status.Phase = Completed THEN NoReQ
                      ELSE IF StepConflict(ret) THEN FastReQ
                      ELSE ret.task.Requeue

\* a step failure moved the task to MigrationFailed and a step that waits
\* asked for the polling interval
C9_Witness ==
    /\ ret.called /\ ret.err = Nil
    /\ ret.requeue = PollReQ
    /\ HasCondition(Conds, Failed)

\* no step is executed by a reconcile of d with input in
NoStep(d, in) ==
    \/ ~ReachesRun(d, in.env)
    \/ in.run.result = "wait"
    \/ d.Status.Phase \in Terminal

\* C10: a reconcile that executes no step, repeated on its own output with
\* the same input, leaves the status as the first one left it; and the task
\* never holds two conditions of one Type.
C10_Idempotent ==
    /\ \A i, j \in 1..Len(Conds) : Conds[i].Type = Conds[j].Type => i = j
    /\ \A in \in Inputs(direct) : \A t \in now..MaxTime :
          NoStep(direct, in) =>
              LET once == migrate(direct, in, now).direct
                  twice == migrate(once, in, t).direct
              IN twice.Status = once.Status

\* a waiting step was reconciled at a later time than the task was started
C10_Witness ==
    /\ ret.called /\ ret.path = "running" /\ ret.task.Requeue = PollReQ
    /\ direct.Status.StartTimestamp # 0
    /\ direct.Status.StartTimestamp < now
    /\ Len(Conds) = 2

\* C11: the first reconcile of a task stamps StartTimestamp, and a
\* StartTimestamp that is set is not changed by any later reconcile.
C11_StampedByFirstReconcile ==
    [][ret'.called =>
          /\ direct'.Status.StartTimestamp # 0
          /\ direct.Status.StartTimestamp # 0 =>
                direct'.Status.StartTimestamp = direct.Status.StartTimestamp]_vars

\* C19: the task never holds a Succeeded and a Failed condition together.
C19_SucceededExcludesFailed ==
    ~(HasCondition(Conds, Succeeded) /\ HasCondition(Conds, Failed))

\* a task that failed and was restarted has reached Completed
C19_Witness ==
    /\ EndedCompleted(ret, direct)
    /\ ret.path = "completed"
    /\ HasCondition(Conds, Failed)
    /\ ~HasCondition(Conds, Running)

\* C20: a step error that is both a conflict and a fatal-plan error is
\* handled as a conflict: the reconcile takes the conflict return with
\* FastReQ and no error, the task is not moved to MigrationFailed and its
\* conditions are left as they were.
C20_ConflictBeforeFatal ==
    [][(StepConflict(ret') /\ ret'.runErr.fatal) =>
          /\ ret'.path = "conflict"
          /\ ret'.requeue = FastReQ /\ ret'.err = Nil
          /\ direct'.Status.Phase # MigrationFailed
          /\ ret'.task.Phase # MigrationFailed
          /\ direct'.Status.Conditions = Conds]_vars

\* a wrapped error that is a conflict and a fatal-plan error was returned
C20_Witness ==
    /\ StepConflict(ret) /\ ret.runErr.fatal /\ ret.runErr.wrapped
    /\ ~HasCondition(Conds, Failed)

\* C18: when the resolvers and the steps succeed and the conflicts are
\* finitely many, the task eventually reaches Completed; the phase then
\* stays Completed and every reconcile at Completed returns NoReQ.
C18_EventuallyCompleted ==
    /\ <>(direct.Status.Phase = Completed)
    /\ [][direct.Status.Phase = Completed =>
             direct'.Status.Phase = Completed]_vars
    /\ []((ret.called /\ direct.Status.Phase = Completed) =>
             (ret.requeue = NoReQ /\ ret.err = Nil))

\* the task reached Completed after every conflict, and was reconciled again
C18_Witness ==
    /\ direct.Status.Phase = Completed
    /\ conflicts = 0
    /\ ret.called /\ ret.task.Requeue = NoReQ
    /\ HasCondition(Conds, Succeeded)
(***************************************************************************)
(* Properties of the resolvers, under SpecResolvers                        *)
(***************************************************************************)
\* the call of resolver fn has returned
Returned(fn) == call.fn = fn /\ call.done

\* C17: for a task with no owner reference getDVMPlanResources returns an
\* empty resource set and no error and looks up neither a migration nor a
\* plan, whatever the stores would answer
C17_NoOwnerNoLookup ==
    (Returned("getDVMPlanResources") /\ Len(call.in.d.OwnerReferences) = 0)
        => /\ call.out.res = EmptyPlanResources
           /\ call.out.err = Nil
           /\ call.out.lookups = 0

\* a task with no owner reference was resolved while the migration lookup
\* would have failed
C17_Witness ==
    /\ Returned("getDVMPlanResources")
    /\ Len(call.in.d.OwnerReferences) = 0
    /\ call.in.env.migration = "err"
    /\ call.out.err = Nil

\* the destination cluster, its client and its config map resolve
EndpointReadsSucceed ==
    /\ call.in.env.destCluster = "ok"
    /\ call.in.env.destClient = "ok"
    /\ call.in.env.configMap = "ok"

\* C14: when the destination cluster, its client and its config map resolve,
\* getEndpointType returns no error, and returns Route when the key is
\* absent, the configured value when it is Route, ClusterIP or NodePort, and
\* Route for any other value
C14_EndpointType ==
    (Returned("getEndpointType") /\ EndpointReadsSucceed)
        => LET data == call.in.env.data IN
           /\ call.out.err = Nil
           /\ RSYNC_ENDPOINT_TYPE \notin DOMAIN data => call.out.type = Route
           /\ RSYNC_ENDPOINT_TYPE \in DOMAIN data =>
                \/ /\ data[RSYNC_ENDPOINT_TYPE] = Route
                   /\ call.out.type = Route
                \/ /\ data[RSYNC_ENDPOINT_TYPE] = ClusterIP
                   /\ call.out.type = ClusterIP
                \/ /\ data[RSYNC_ENDPOINT_TYPE] = NodePort
                   /\ call.out.type = NodePort
                \/ /\ data[RSYNC_ENDPOINT_TYPE] \notin {Route, ClusterIP, NodePort}
                   /\ call.out.type = Route

\* the key is configured as NodePort and NodePort is returned
C14_Witness ==
    /\ Returned("getEndpointType")
    /\ EndpointReadsSucceed
    /\ RSYNC_ENDPOINT_TYPE \in DOMAIN call.in.env.data
    /\ call.in.env.data[RSYNC_ENDPOINT_TYPE] = NodePort
    /\ call.out.type = NodePort

\* the call listed the analytics of a plan
ListedAnalytics ==
    /\ Returned("getSparseFilePVCMap")
    /\ call.in.plan # "nil"
    /\ call.in.env.list = "ok"

\* record a reports volume name of namespace ns, with the sparse flag in
\* flags
Names(a, ns, name, flags) ==
    \E j \in 1..Len(a.Namespaces) :
        /\ a.Namespaces[j].Namespace = ns
        /\ \E k \in 1..Len(a.Namespaces[j].PersistentVolumes) :
               /\ a.Namespaces[j].PersistentVolumes[k].Name = name
               /\ a.Namespaces[j].PersistentVolumes[k].SparseFilesFound \in flags

\* the namespaces and the volume names of the listings
NamespaceNames == {"ns1", "ns2"}
VolumeNames == {"pvc-a", "pvc-b"}

\* the key "ns/name"
KeyOf(ns, name) == ns \o "/" \o name

\* some listed record with AnalyzeExtendedPVCapacity=true reports volume
\* name of namespace ns with SparseFilesFound=true
SparseReported(items, ns, name) ==
    \E i \in 1..Len(items) :
        /\ items[i].AnalyzeExtendedPVCapacity
        /\ Names(items[i], ns, name, {TRUE})

\* the orderings of a listing
Orderings(items) ==
    {[i \in 1..Len(items) |-> items[f[i]]] :
        f \in {g \in [1..Len(items) -> 1..Len(items)] :
                 \A i, j \in 1..Len(items) : g[i] = g[j] => i = j}}

\* C16: for a plan whose listing succeeds the advisory holds "ns/name" if
\* and only if a listed record with AnalyzeExtendedPVCapacity=true reports
\* that volume with SparseFilesFound=true, every stored value is true, and
\* every permutation of the listing gives the same advisory; for a nil
\* plan the advisory is empty and there is no error
C16_SparseFileMap ==
    /\ ListedAnalytics =>
          /\ call.out.err = Nil
          /\ DOMAIN call.out.map \subseteq
                 {KeyOf(ns, name) : ns \in NamespaceNames, name \in VolumeNames}
          /\ \A ns \in NamespaceNames, name \in VolumeNames :
                 KeyOf(ns, name) \in DOMAIN call.out.map
                     <=> SparseReported(call.in.env.analytics, ns, name)
          /\ \A k \in DOMAIN call.out.map : call.out.map[k] = TRUE
          /\ \A l \in Orderings(call.in.env.analytics) :
                 getSparseFilePVCMap(call.in.plan,
                     [call.in.env EXCEPT !.analytics = l]) = call.out
    /\ (Returned("getSparseFilePVCMap") /\ call.in.plan = "nil") =>
          /\ call.out.map = EmptyMap
          /\ call.out.err = Nil

\* two records were listed, the first reports a sparse volume without the
\* analysis and the second another one with it: only the second is a key
C16_Witness ==
    /\ ListedAnalytics
    /\ Len(call.in.env.analytics) = 2
    /\ ~call.in.env.analytics[1].AnalyzeExtendedPVCapacity
    /\ Names(call.in.env.analytics[1], "ns1", "pvc-a", {TRUE})
    /\ call.in.env.analytics[2].AnalyzeExtendedPVCapacity
    /\ Names(call.in.env.analytics[2], "ns2", "pvc-a", {TRUE})
    /\ DOMAIN call.out.map = {KeyOf("ns2", "pvc-a")}

\* C15 as stated: no volume of a record with AnalyzeExtendedPVCapacity=false
\* is a key of the advisory, whatever the other records of the listing
C15_UnanalyzedNeverKeys ==
    ListedAnalytics =>
        \A i \in 1..Len(call.in.env.analytics) :
            ~call.in.env.analytics[i].AnalyzeExtendedPVCapacity =>
                \A ns \in NamespaceNames, name \in VolumeNames :
                    Names(call.in.env.analytics[i], ns, name, BOOLEAN)
                        => KeyOf(ns, name) \notin DOMAIN call.out.map

\* C15: a volume of a record with AnalyzeExtendedPVCapacity=false is a key
\* of the advisory only when another listed record with
\* AnalyzeExtendedPVCapacity=true reports the same namespace/volume with
\* SparseFilesFound=true
C15_UnanalyzedKeysOnlyByOthers ==
    ListedAnalytics =>
        \A i \in 1..Len(call.in.env.analytics) :
            ~call.in.env.analytics[i].AnalyzeExtendedPVCapacity =>
                \A ns \in NamespaceNames, name \in VolumeNames :
                    (/\ Names(call.in.env.analytics[i], ns, name, BOOLEAN)
                     /\ KeyOf(ns, name) \in DOMAIN call.out.map)
                        => \E j \in (1..Len(call.in.env.analytics)) \ {i} :
                               /\ call.in.env.analytics[j].AnalyzeExtendedPVCapacity
                               /\ Names(call.in.env.analytics[j], ns, name, {TRUE})

\* a record without the analysis reports a sparse volume, no other record
\* reports it, and it is not a key
C15_Witness ==
    /\ ListedAnalytics
    /\ \E i \in 1..Len(call.in.env.analytics) :
           /\ ~call.in.env.analytics[i].AnalyzeExtendedPVCapacity
           /\ Names(call.in.env.analytics[i], "ns1", "pvc-a", {TRUE})
    /\ ~SparseReported(call.in.env.analytics, "ns1", "pvc-a")
    /\ KeyOf("ns1", "pvc-a") \notin DOMAIN call.out.map

(***************************************************************************)
(* Properties of the trace correlator, under SpecTracer                    *)
(***************************************************************************)
\* C12: over every interleaving of initTracer calls InitJaeger is invoked
\* at most once, the handle on the reconciler is never replaced (it is nil
\* or the handle of the first invocation), and with tracing disabled it is
\* never initialised
C12_TracerInitialisedOnce ==
    /\ inits <= 1
    /\ tracer \in {0, 1}
    /\ ~settings.Enabled => (inits = 0 /\ tracer = 0)

\* the UIDs of the MigMigration owners of refs
MigrationOwners(refs) ==
    {refs[i].UID : i \in {j \in 1..Len(refs) : refs[j].Kind = "MigMigration"}}

\* C13: initTracer returns nil when tracing is disabled or no root span is
\* registered for an owning migration's UID; otherwise it returns a span
\* that is a child of the root span registered for an owning MigMigration
C13_SpanOfOwner ==
    \A g \in Goroutines :
        goroutines[g].pc = "returned" =>
            LET registered == MigrationOwners(goroutines[g].refs) \cap spans IN
            IF ~settings.Enabled \/ registered = {}
            THEN goroutines[g].span = NoSpan
            ELSE /\ goroutines[g].span # NoSpan
                 /\ goroutines[g].span.parent \in registered

====
